---------------------------- MODULE Spec2Model ----------------------------
(***************************************************************************)
(* The storage layer of atlas-scribe (src/src/services/storage.js): the    *)
(* MapStore contract (list / read / write / destroy) over an in-memory     *)
(* map and over a filesystem directory, the key-transform combinators and  *)
(* the JSON-modeled store.                                                 *)
(*                                                                         *)
(* Strings are sequences of one-character strings (UTF-16 code units), so  *)
(* that slicing, joining, encoding and parsing are computed, not assumed.  *)
(***************************************************************************)
EXTENDS Integers, Sequences, FiniteSets, TLC

VARIABLES
    backends,      \* the backends the calls are made on
    internalMap,   \* createMemoryMapStore: the key -> value mapping
    fs,            \* the filesystem seen by createDirectoryMapStore
    last,          \* the last call made on the stores and what it returned
    prev,          \* the call before the last one, when it was a write
    written,       \* per wrapping store: the keys currently written through it
    probe,         \* a key taken through the key transforms, and what came out
    calls,         \* store calls made concurrently: how far each has come
    chapters,      \* the chapter service and the services it calls
    route,         \* a request in a REST route's handler, and the response
    assembled      \* what createModelMapStore gave, and the bucket behind it

vars ==
    <<backends, internalMap, fs, last, prev, written, probe, calls, chapters, route, assembled>>

(***************************************************************************)
(* Bounds of the model.                                                    *)
(***************************************************************************)
MaxPlainKeys == 2

MaxKeyLen == 3

(***************************************************************************)
(* Small helpers on sequences and functions.                               *)
(***************************************************************************)
Range(s) == {s[i] : i \in DOMAIN s}

EmptyMap == [x \in {} |-> x]

Last(s) == s[Len(s)]

Front(s) == SubSeq(s, 1, Len(s) - 1)

Restrict(f, S) == [x \in S |-> f[x]]

Put(f, k, v) == [x \in (DOMAIN f) \cup {k} |-> IF x = k THEN v ELSE f[x]]

Orderings(S) == {o \in [1..Cardinality(S) -> S] : \A i, j \in DOMAIN o : o[i] = o[j] => i = j}

Min(a, b) == IF a < b THEN a ELSE b

Max(a, b) == IF a > b THEN a ELSE b

(***************************************************************************)
(* Result: success payload or typed failure payload.                       *)
(***************************************************************************)
Undefined == [undefined |-> TRUE]

succeed(v) == [type |-> "success", success |-> v]

fail(f) == [type |-> "failure", failure |-> f]

NotFound == [type |-> "not-found"]

InternalFailure(e) == [type |-> "internal-failure", error |-> e]

IsSuccess(r) == r.type = "success"

IsFailureOf(r, t) == r.type = "failure" /\ r.failure.type = t

(***************************************************************************)
(* createMap2 (lib/map2): get, set and delete return Results.              *)
(***************************************************************************)
Map2Get(m, key) == IF key \in DOMAIN m THEN succeed(m[key]) ELSE fail(NotFound)

Map2Set(m, key, value) == [map |-> Put(m, key, value), result |-> succeed(Undefined)]

Map2Delete(m, key) ==
    IF key \in DOMAIN m
    THEN [map |-> Restrict(m, (DOMAIN m) \ {key}), result |-> succeed(Undefined)]
    ELSE [map |-> m, result |-> fail(NotFound)]

Map2Entries(m) == DOMAIN m

(***************************************************************************)
(* createMemoryMapStore.  Every operation yields the Result it returns and *)
(* the map it leaves.  list takes the order in which entries() yields.     *)
(***************************************************************************)
MemoryList(m, order) == [map |-> m, result |-> succeed(order)]

MemoryRead(m, key) ==
    LET got == Map2Get(m, key)
    IN  [map |-> m,
         result |-> IF IsSuccess(got) THEN succeed(got.success) ELSE fail(NotFound)]

MemoryWrite(m, key, value) ==
    LET set == Map2Set(m, key, value)
    IN  [map |-> set.map,
         result |-> IF IsSuccess(set.result) THEN succeed(Undefined) ELSE set.result]

(* A destroy that reports success for an absent key too. *)
MemoryDestroyAlways(m, key) ==
    [map |-> Map2Delete(m, key).map, result |-> succeed(Undefined)]

MemoryDestroy(m, key) ==
    LET del == Map2Delete(m, key)
    IN  [map |-> del.map,
         result |-> IF IsSuccess(del.result) THEN succeed(Undefined) ELSE fail(NotFound)]

(***************************************************************************)
(* Text written with the 'utf-8' encoding.  A string is a sequence of      *)
(* UTF-16 code units; a file holds a sequence of Unicode scalar values.    *)
(* A surrogate pair encodes to one astral scalar value, a lone surrogate   *)
(* to U+FFFD; decoding turns an astral scalar value back into its pair.    *)
(***************************************************************************)
HighSurrogate == "U+D83D"

LowSurrogate == "U+DE00"

Replacement == "U+FFFD"

Astral == "U+1F600"

(* A byte of a file that is no character on its own: what is left of a     *)
(* multi-byte character whose first bytes were overwritten.                *)
Orphan == "byte"

(* The bytes a character of a file's content takes in UTF-8. *)
ByteWidth(c) ==
    IF c = Astral THEN 4 ELSE IF c = Replacement THEN 3 ELSE 1

RECURSIVE ByteLength(_)
ByteLength(c) == IF c = <<>> THEN 0 ELSE ByteWidth(Head(c)) + ByteLength(Tail(c))

(* The content from byte n on. *)
RECURSIVE DropBytes(_, _)
DropBytes(c, n) ==
    IF n = 0 \/ c = <<>> THEN c
    ELSE IF n >= ByteWidth(Head(c)) THEN DropBytes(Tail(c), n - ByteWidth(Head(c)))
    ELSE [i \in 1..(ByteWidth(Head(c)) - n) |-> Orphan] \o Tail(c)

RECURSIVE utf8Encode(_)
utf8Encode(v) ==
    IF v = <<>> THEN <<>>
    ELSE IF Len(v) >= 2 /\ v[1] = HighSurrogate /\ v[2] = LowSurrogate
         THEN <<Astral>> \o utf8Encode(SubSeq(v, 3, Len(v)))
    ELSE IF v[1] \in {HighSurrogate, LowSurrogate}
         THEN <<Replacement>> \o utf8Encode(Tail(v))
    ELSE <<v[1]>> \o utf8Encode(Tail(v))

RECURSIVE utf8Decode(_)
utf8Decode(c) ==
    IF c = <<>> THEN <<>>
    ELSE IF c[1] = Astral
         THEN <<HighSurrogate, LowSurrogate>> \o utf8Decode(Tail(c))
    ELSE IF c[1] = Orphan
         THEN <<Replacement>> \o utf8Decode(Tail(c))
    ELSE <<c[1]>> \o utf8Decode(Tail(c))

(***************************************************************************)
(* Paths.  A path is the sequence of its segments below "/", with a flag   *)
(* for a trailing separator; join is path.join: it splits the key on "/",  *)
(* drops "" and "." segments and lets ".." remove the segment before it.   *)
(***************************************************************************)
RECURSIVE Split(_)
Split(s) ==
    IF "/" \notin Range(s) THEN <<s>>
    ELSE LET i == CHOOSE n \in 1..Len(s) : s[n] = "/" /\ \A m \in 1..(n - 1) : s[m] # "/"
         IN  <<SubSeq(s, 1, i - 1)>> \o Split(SubSeq(s, i + 1, Len(s)))

RECURSIVE normalize(_, _)
normalize(acc, segs) ==
    IF segs = <<>> THEN acc
    ELSE LET h == Head(segs)
         IN  normalize(IF h = <<>> \/ h = <<".">> THEN acc
                       ELSE IF h = <<".", ".">>
                            THEN (IF acc = <<>> THEN acc ELSE Front(acc))
                       ELSE Append(acc, h),
                       Tail(segs))

join(path, key) ==
    LET segs == normalize(path, Split(key))
    IN  [segs |-> segs,
         trailing |-> key # <<>> /\ Last(key) = "/" /\ segs # <<>>]

(* The directory the store is created on: "/d/s". *)
StorePath == << <<"d">>, <<"s">> >>

(***************************************************************************)
(* The filesystem: fs.root says what the store's path names ("dir": a      *)
(* directory, "symlink": a symbolic link to a directory, "gone": nothing), *)
(* fs.files maps the path of every regular file to its content.  "/" and   *)
(* "/d" are directories throughout.                                        *)
(***************************************************************************)
Directories(f) == {<<>>, Front(StorePath)} \cup (IF f.root = "gone" THEN {} ELSE {StorePath})

(* What a path names: "dir", "file", or the errno of resolving it. *)
RECURSIVE Kind(_, _)
Kind(f, p) ==
    IF p = <<>> THEN "dir"
    ELSE LET parent == Kind(f, Front(p))
         IN  IF parent \in {"ENOENT", "ENOTDIR"} THEN parent
             ELSE IF parent = "file" THEN "ENOTDIR"
             ELSE IF p \in Directories(f) THEN "dir"
             ELSE IF p \in DOMAIN f.files THEN "file"
             ELSE "ENOENT"

Err(code) == [ok |-> FALSE, code |-> code]

(* mkdir(path, { recursive: true }) when directoryExists(path) is false. *)
mkdir(root) == IF root = "absent" THEN "dir" ELSE root

readFile(f, filename) ==
    LET k == Kind(f, filename.segs)
    IN  IF k = "file"
        THEN (IF filename.trailing THEN Err("ENOTDIR")
              ELSE [ok |-> TRUE, content |-> utf8Decode(f.files[filename.segs])])
        ELSE IF k = "dir" THEN Err("EISDIR")
        ELSE Err(k)

writeFile(f, filename, value) ==
    LET p == filename.segs
        k == Kind(f, p)
        stored == [ok |-> TRUE, fs |-> [f EXCEPT !.files = Put(f.files, p, utf8Encode(value))]]
    IN  IF k = "dir" THEN Err("EISDIR")
        ELSE IF k = "ENOTDIR" THEN Err("ENOTDIR")
        ELSE IF k = "file" THEN (IF filename.trailing THEN Err("EISDIR") ELSE stored)
        ELSE IF Kind(f, Front(p)) = "dir"
             THEN (IF filename.trailing THEN Err("EISDIR") ELSE stored)
        ELSE Err("ENOENT")

(* unlink of a directory fails with EISDIR (Linux) or EPERM (POSIX): dirErr. *)
(* unlink of a symbolic link removes the link; named with a trailing       *)
(* separator the link is not removed and the call fails with ENOTDIR.      *)
unlink(f, filename, dirErr) ==
    LET p == filename.segs
        k == Kind(f, p)
    IN  IF k = "file"
        THEN (IF filename.trailing THEN Err("ENOTDIR")
              ELSE [ok |-> TRUE,
                    fs |-> [f EXCEPT !.files = Restrict(f.files, (DOMAIN f.files) \ {p})]])
        ELSE IF k = "dir"
             THEN (IF p = StorePath /\ f.root = "symlink"
                   THEN (IF filename.trailing THEN Err("ENOTDIR")
                         ELSE [ok |-> TRUE, fs |-> [f EXCEPT !.root = "gone"]])
                   ELSE Err(dirErr))
        ELSE Err(k)

(* The names readdir(p) yields, in no particular order. *)
readdirNames(f, p) ==
    IF Kind(f, p) # "dir" THEN {}
    ELSE {Last(q) : q \in {x \in (DOMAIN f.files) \cup Directories(f) : x # <<>> /\ Front(x) = p}}

readdir(f, p, order) ==
    LET k == Kind(f, p)
    IN  IF k = "dir" THEN [ok |-> TRUE, names |-> order]
        ELSE IF k = "file" THEN Err("ENOTDIR")
        ELSE Err(k)

(***************************************************************************)
(* createDirectoryMapStore(path).                                          *)
(***************************************************************************)
IsAbsent(code) == code = "EEXIST" \/ code = "ENOENT"

DirectoryList(f, order) ==
    LET r == readdir(f, StorePath, order)
    IN  [fs |-> f,
         result |-> IF r.ok THEN succeed(r.names)
                    ELSE fail(InternalFailure([code |-> r.code]))]

DirectoryRead(f, key) ==
    LET filename == join(StorePath, key)
        r == readFile(f, filename)
    IN  [fs |-> f,
         result |-> IF r.ok THEN succeed(r.content)
                    ELSE IF IsAbsent(r.code) THEN fail(NotFound)
                    ELSE fail(InternalFailure([code |-> r.code]))]

DirectoryWrite(f, key, value) ==
    LET filename == join(StorePath, key)
        r == writeFile(f, filename, value)
    IN  IF r.ok THEN [fs |-> r.fs, result |-> succeed(Undefined)]
        ELSE [fs |-> f, result |-> fail(InternalFailure([code |-> r.code]))]

(* destroy computes filename and then unlinks path, the store's directory. *)
DestroyTarget(key) == [segs |-> StorePath, trailing |-> FALSE]

DirectoryDestroy(f, key, dirErr) ==
    LET r == unlink(f, DestroyTarget(key), dirErr)
    IN  IF r.ok THEN [fs |-> r.fs, result |-> succeed(Undefined)]
        ELSE IF IsAbsent(r.code) THEN [fs |-> f, result |-> fail(NotFound)]
        ELSE [fs |-> f, result |-> fail(InternalFailure([code |-> r.code]))]

(***************************************************************************)
(* The two backends driven by the same calls: every call is made on the    *)
(* memory store and on the directory store.                                *)
(***************************************************************************)
PlainKeys == {[i \in 1..n |-> "a"] : n \in 1..MaxPlainKeys}

EdgeKeys == {<<>>}

Keys == PlainKeys \cup EdgeKeys

Values == {<<"x">>, <<HighSurrogate>>, <<HighSurrogate, LowSurrogate>>}

UnlinkDirErrors == {"EISDIR", "EPERM"}

NoCall == [op |-> "none", key |-> <<>>]

NoneWritten == EmptyMap

NoProbe == [stage |-> "none"]

NoCalls == [stage |-> "none"]

NoChapters == [stage |-> "none"]

NoRoute == [stage |-> "none"]

NoStore == [stage |-> "none"]

Both == {"memory", "directory"}

(* What the call record holds for a backend the call was not made on. *)
NotCalled == [type |-> "not-called"]

Call(op, key, value, m, d) ==
    [op |-> op, key |-> key, value |-> value,
     mem |-> IF "memory" \in backends THEN m.result ELSE NotCalled,
     dir |-> IF "directory" \in backends THEN d.result ELSE NotCalled]

(* The store is created on a path that is absent or is a directory; every  *)
(* call is made on both backends.                                          *)
Init ==
    /\ backends = Both
    /\ internalMap = EmptyMap
    /\ \E root \in {"absent", "dir"} : fs = [root |-> mkdir(root), files |-> EmptyMap]
    /\ last = NoCall
    /\ prev = NoCall
    /\ written = NoneWritten
    /\ probe = NoProbe
    /\ calls = NoCalls
    /\ chapters = NoChapters
    /\ route = NoRoute
    /\ assembled = NoStore

(* One backend on its own.  The path may also be a symbolic link to a      *)
(* directory: stat follows it.                                             *)
InitEdge ==
    /\ \E b \in Both : backends = {b}
    /\ internalMap = EmptyMap
    /\ \E root \in {"absent", "dir", "symlink"} : fs = [root |-> mkdir(root), files |-> EmptyMap]
    /\ last = NoCall
    /\ prev = NoCall
    /\ written = NoneWritten
    /\ probe = NoProbe
    /\ calls = NoCalls
    /\ chapters = NoChapters
    /\ route = NoRoute
    /\ assembled = NoStore

Record(call) ==
    /\ last' = call
    /\ prev' = IF last.op = "write" THEN last ELSE NoCall
    /\ UNCHANGED <<backends, written, probe, calls, chapters, route,
                   assembled>>

Apply(m, d) ==
    /\ internalMap' = IF "memory" \in backends THEN m.map ELSE internalMap
    /\ fs' = IF "directory" \in backends THEN d.fs ELSE fs

List ==
    \E mo \in Orderings(Map2Entries(internalMap)), do \in Orderings(readdirNames(fs, StorePath)) :
        LET m == MemoryList(internalMap, mo)
            d == DirectoryList(fs, do)
        IN  /\ Apply(m, d)
            /\ Record(Call("list", <<>>, <<>>, m, d))

Read(key) ==
    LET m == MemoryRead(internalMap, key)
        d == DirectoryRead(fs, key)
    IN  /\ Apply(m, d)
        /\ Record(Call("read", key, <<>>, m, d))

Write(key, value) ==
    LET m == MemoryWrite(internalMap, key, value)
        d == DirectoryWrite(fs, key, value)
    IN  /\ Apply(m, d)
        /\ Record(Call("write", key, value, m, d))

Destroy(key) ==
    \E dirErr \in UnlinkDirErrors :
        LET m == MemoryDestroy(internalMap, key)
            d == DirectoryDestroy(fs, key, dirErr)
        IN  /\ Apply(m, d)
            /\ Record(Call("destroy", key, <<>>, m, d))

(* Calls with keys that name a file of the directory. *)
Next ==
    \/ List
    \/ \E key \in PlainKeys : Read(key)
    \/ \E key \in PlainKeys, value \in Values : Write(key, value)
    \/ \E key \in PlainKeys : Destroy(key)

Spec == Init /\ [][Next]_vars

(* Calls with any key, the empty key included. *)
NextEdge ==
    \/ List
    \/ \E key \in Keys : Read(key)
    \/ \E key \in Keys, value \in Values : Write(key, value)
    \/ \E key \in Keys : Destroy(key)

SpecEdge == InitEdge /\ [][NextEdge]_vars

(***************************************************************************)
(* Properties of the backends.                                             *)
(***************************************************************************)
KeyFile(key) == join(StorePath, key).segs

SameResult(a, b) ==
    /\ a.type = b.type
    /\ IsSuccess(a) => IF last.op = "list" THEN Range(a.success) = Range(b.success)
                       ELSE a.success = b.success
    /\ ~IsSuccess(a) => a.failure.type = b.failure.type

(* C1: on the directory store a destroy(k) leaves the root directory in    *)
(* place and every file other than k's present with its content, and when  *)
(* k's file existed it returns success and k's file is gone.               *)
C1_DestroyRemovesOnlyKeyFile ==
    [][last'.op = "destroy" =>
         LET file == KeyFile(last'.key)
         IN  /\ fs'.root # "gone"
             /\ \A p \in DOMAIN fs.files :
                    p # file => /\ p \in DOMAIN fs'.files
                                /\ fs'.files[p] = fs.files[p]
             /\ Kind(fs, file) = "file" =>
                    /\ IsSuccess(last'.dir)
                    /\ Kind(fs', file) # "file"]_vars

(* C2: on both backends write(k, v), destroy(k), read(k) made in a row     *)
(* end with destroy returning success and read returning not-found.        *)
C2_WriteDestroyRead ==
    [][(/\ prev.op = "write"
        /\ last.op = "destroy" /\ last.key = prev.key
        /\ last'.op = "read" /\ last'.key = last.key)
       => /\ IsSuccess(last.mem) /\ IsSuccess(last.dir)
          /\ IsFailureOf(last'.mem, "not-found")
          /\ IsFailureOf(last'.dir, "not-found")]_vars

(* C3: on every backend a read(k) made right after write(k, v) returns     *)
(* success with exactly v, whatever calls came before the write.           *)
C3_WriteReadAlways ==
    (last.op = "read" /\ prev.op = "write" /\ prev.key = last.key)
    => /\ "memory" \in backends => last.mem = succeed(prev.value)
       /\ "directory" \in backends => last.dir = succeed(prev.value)

(* C4: the first call on a store over an empty directory being a destroy,  *)
(* it returns not-found and leaves the directory as it was.                *)
C4_DestroyMissingOnFresh ==
    [][(/\ last.op = "none" /\ fs.files = EmptyMap
        /\ last'.op = "destroy")
       => /\ IsFailureOf(last'.dir, "not-found")
          /\ fs' = fs]_vars

(* C5: every call returns on the directory store a result of the same     *)
(* type and payload as on the memory store (lists compared as sets).       *)
C5_BackendsAgree ==
    last.op # "none" => SameResult(last.mem, last.dir)

(* How often a key is in a list. *)
Occurrences(keys, key) == Cardinality({i \in DOMAIN keys : keys[i] = key})

(* C11: write is an upsert on every backend: write(k, v) returns success   *)
(* whether or not k is present and leaves every other key with its value;  *)
(* a read(k) right after it returns v, also when k held another value      *)
(* before, and a list right after it holds k exactly once.                 *)
C11_WriteUpserts ==
    [][/\ last'.op = "write"
          => /\ "memory" \in backends
                => /\ IsSuccess(last'.mem)
                   /\ \A k \in DOMAIN internalMap :
                          k # last'.key => (k \in DOMAIN internalMap'
                                            /\ internalMap'[k] = internalMap[k])
             /\ "directory" \in backends
                => /\ IsSuccess(last'.dir)
                   /\ \A p \in DOMAIN fs.files :
                          p # KeyFile(last'.key) => (p \in DOMAIN fs'.files
                                                     /\ fs'.files[p] = fs.files[p])
       /\ (last.op = "write" /\ last'.op = "read" /\ last'.key = last.key)
          => /\ "memory" \in backends => last'.mem = succeed(last.value)
             /\ "directory" \in backends => last'.dir = succeed(last.value)
       /\ (last.op = "write" /\ last'.op = "list")
          => /\ "memory" \in backends
                => (IsSuccess(last'.mem) /\ Occurrences(last'.mem.success, last.key) = 1)
             /\ "directory" \in backends
                => (IsSuccess(last'.dir) /\ Occurrences(last'.dir.success, last.key) = 1)]_vars

(* C16: on the memory store read and list leave the mapping as it is;     *)
(* read(k) and destroy(k) of an absent k return not-found and leave the    *)
(* mapping as it is; destroy(k) of a present k returns success and removes *)
(* k alone; and a destroy(k) right after a successful one returns          *)
(* not-found.                                                              *)
C16_MemoryFrame ==
    []["memory" \in backends =>
         /\ last'.op \in {"read", "list"} => internalMap' = internalMap
         /\ (last'.op \in {"read", "destroy"} /\ last'.key \notin DOMAIN internalMap)
            => (IsFailureOf(last'.mem, "not-found") /\ internalMap' = internalMap)
         /\ (last'.op = "destroy" /\ last'.key \in DOMAIN internalMap)
            => /\ IsSuccess(last'.mem)
               /\ DOMAIN internalMap' = (DOMAIN internalMap) \ {last'.key}
               /\ \A k \in DOMAIN internalMap' : internalMap'[k] = internalMap[k]
         /\ (/\ last.op = "destroy" /\ IsSuccess(last.mem)
             /\ last'.op = "destroy" /\ last'.key = last.key)
            => IsFailureOf(last'.mem, "not-found")]_vars

(* A destroy that succeeded and left another key behind. *)
C16_Witness ==
    /\ "memory" \in backends
    /\ last.op = "destroy"
    /\ IsSuccess(last.mem)
    /\ last.key \notin DOMAIN internalMap
    /\ internalMap # EmptyMap

(***************************************************************************)
(* The directory store on its own, called with keys that hold "/" and      *)
(* ".." segments: 'a', '../a' and 'a/a'.                                   *)
(***************************************************************************)
TraversalKeys == {<<"a">>, <<".", ".", "/", "a">>, <<"a", "/", "a">>}

InitTraversal ==
    /\ backends = {"directory"}
    /\ internalMap = EmptyMap
    /\ \E root \in {"absent", "dir"} : fs = [root |-> mkdir(root), files |-> EmptyMap]
    /\ last = NoCall
    /\ prev = NoCall
    /\ written = NoneWritten
    /\ probe = NoProbe
    /\ calls = NoCalls
    /\ chapters = NoChapters
    /\ route = NoRoute
    /\ assembled = NoStore

NextTraversal ==
    \/ List
    \/ \E key \in TraversalKeys : Read(key)
    \/ \E key \in TraversalKeys, value \in Values : Write(key, value)
    \/ \E key \in TraversalKeys : Destroy(key)

SpecTraversal == InitTraversal /\ [][NextTraversal]_vars

(* The path a call hands to readFile, writeFile or unlink. *)
OperatedPath(op, key) ==
    IF op = "destroy" THEN DestroyTarget(key).segs ELSE KeyFile(key)

(* C18: the path a read, write or destroy of the directory store operates  *)
(* on lies inside the store's directory, whatever the key, and so does     *)
(* every file the calls leave behind.                                      *)
C18_PathsInsideStore ==
    LET Inside(p) == /\ Len(p) > Len(StorePath)
                     /\ SubSeq(p, 1, Len(StorePath)) = StorePath
    IN  ("directory" \in backends /\ last.op \in {"read", "write", "destroy"})
        => /\ Inside(OperatedPath(last.op, last.key))
           /\ \A p \in DOMAIN fs.files : Inside(p)

(***************************************************************************)
(* Two callers on one store, each making one call on the same key before   *)
(* either has its Result.  A call on the memory store runs from start to   *)
(* end when it is made: its body holds no await.  writeFile on the         *)
(* directory store opens the file (creating or truncating it), writes the  *)
(* text from offset 0 and closes it, each a step of its own on the thread  *)
(* pool; unlink is one step; a call settles some time after its last step. *)
(***************************************************************************)
openForWrite(f, filename) == writeFile(f, filename, <<>>)

writeData(f, filename, value) ==
    LET p == filename.segs
        data == utf8Encode(value)
        old == f.files[p]
    IN  [f EXCEPT !.files = Put(f.files, p, data \o DropBytes(old, ByteLength(data)))]

RaceKey == <<"a">>

RaceValues == {<<"x", "x">>, <<"y">>}

Callers == {1, 2}

RaceCall(op, value) == [op |-> op, value |-> value, pc |-> "ready", result |-> NotCalled]

(* One caller writes; the other writes or destroys.  The key may hold a    *)
(* value already.                                                          *)
InitRace ==
    /\ \E b \in Both : backends = {b}
    /\ \E held \in BOOLEAN :
        /\ internalMap = IF held THEN Put(EmptyMap, RaceKey, <<"z">>) ELSE EmptyMap
        /\ fs = [root |-> "dir",
                 files |-> IF held THEN Put(EmptyMap, KeyFile(RaceKey), <<"z">>) ELSE EmptyMap]
    /\ last = NoCall
    /\ prev = NoCall
    /\ written = NoneWritten
    /\ probe = NoProbe
    /\ \E v \in RaceValues, other \in {RaceCall("write", w) : w \in RaceValues}
                                        \cup {RaceCall("destroy", <<>>)} :
           calls = [stage |-> "racing",
                    call |-> [c \in Callers |-> IF c = 1 THEN RaceCall("write", v) ELSE other],
                    completed |-> <<>>]
    /\ chapters = NoChapters
    /\ route = NoRoute
    /\ assembled = NoStore

Racing(c, pc) == calls.stage = "racing" /\ calls.call[c].pc = pc

Advance(c, pc, result) ==
    calls' = [calls EXCEPT !.call[c].pc = pc, !.call[c].result = result,
                           !.completed = IF pc = "done" THEN Append(@, c) ELSE @]

RaceMemory(c) ==
    /\ "memory" \in backends
    /\ Racing(c, "ready")
    /\ LET m == IF calls.call[c].op = "write"
                THEN MemoryWrite(internalMap, RaceKey, calls.call[c].value)
                ELSE MemoryDestroy(internalMap, RaceKey)
       IN  /\ internalMap' = m.map
           /\ Advance(c, "done", m.result)
    /\ UNCHANGED <<backends, fs, last, prev, written, probe, chapters, route,
                   assembled>>

RaceOpen(c) ==
    /\ "directory" \in backends
    /\ Racing(c, "ready")
    /\ calls.call[c].op = "write"
    /\ LET r == openForWrite(fs, join(StorePath, RaceKey))
       IN  IF r.ok THEN fs' = r.fs /\ Advance(c, "opened", NotCalled)
           ELSE fs' = fs /\ Advance(c, "settled", fail(InternalFailure([code |-> r.code])))
    /\ UNCHANGED <<backends, internalMap, last, prev, written, probe,
                   chapters, route, assembled>>

RaceWriteData(c) ==
    /\ Racing(c, "opened")
    /\ fs' = writeData(fs, join(StorePath, RaceKey), calls.call[c].value)
    /\ Advance(c, "settled", succeed(Undefined))
    /\ UNCHANGED <<backends, internalMap, last, prev, written, probe,
                   chapters, route, assembled>>

RaceUnlink(c) ==
    /\ "directory" \in backends
    /\ Racing(c, "ready")
    /\ calls.call[c].op = "destroy"
    /\ \E dirErr \in UnlinkDirErrors :
        LET d == DirectoryDestroy(fs, RaceKey, dirErr)
        IN  fs' = d.fs /\ Advance(c, "settled", d.result)
    /\ UNCHANGED <<backends, internalMap, last, prev, written, probe,
                   chapters, route, assembled>>

RaceSettle(c) ==
    /\ Racing(c, "settled")
    /\ Advance(c, "done", calls.call[c].result)
    /\ UNCHANGED <<backends, internalMap, fs, last, prev, written, probe,
                   chapters, route, assembled>>

(* Both calls having completed, the key is read. *)
RaceRead ==
    /\ \A c \in Callers : Racing(c, "done")
    /\ last.op = "none"
    /\ LET m == MemoryRead(internalMap, RaceKey)
           d == DirectoryRead(fs, RaceKey)
       IN  last' = Call("read", RaceKey, <<>>, m, d)
    /\ UNCHANGED <<backends, internalMap, fs, prev, written, probe, calls,
                   chapters, route, assembled>>

NextRace ==
    \/ \E c \in Callers : RaceMemory(c)
    \/ \E c \in Callers : RaceOpen(c)
    \/ \E c \in Callers : RaceWriteData(c)
    \/ \E c \in Callers : RaceUnlink(c)
    \/ \E c \in Callers : RaceSettle(c)
    \/ RaceRead

SpecRace == InitRace /\ [][NextRace]_vars

(* C12: two concurrent calls on one key having both completed, neither     *)
(* reports a conflict, and a read of the key returns the effect of the     *)
(* call that completed last: its value when it was a write, not-found when *)
(* it was the destroy.                                                     *)
C12_LastCompletedWins ==
    (calls.stage = "racing" /\ last.op = "read")
    => LET winner == calls.call[Last(calls.completed)]
           read == IF "memory" \in backends THEN last.mem ELSE last.dir
       IN  /\ \A c \in Callers :
                  \/ IsSuccess(calls.call[c].result)
                  \/ IsFailureOf(calls.call[c].result, "not-found")
                  \/ IsFailureOf(calls.call[c].result, "internal-failure")
           /\ winner.op = "write" => read = succeed(winner.value)
           /\ winner.op = "destroy" => IsFailureOf(read, "not-found")

(***************************************************************************)
(* transformKey and its two instances.  slice is String.prototype.slice:   *)
(* a negative index counts from the end, and both ends are clamped.        *)
(***************************************************************************)
sliceIndex(n, len) == IF n < 0 THEN Max(len + n, 0) ELSE Min(n, len)

slice(s, start, end) ==
    LET from == sliceIndex(start, Len(s))
        to == sliceIndex(end, Len(s))
    IN  IF from < to THEN SubSeq(s, from + 1, to) ELSE <<>>

sliceFrom(s, start) == slice(s, start, Len(s))

(* transformKeyWithNamespace: key => `${namespace}/${key}` and back. *)
namespaceTransformKey(namespace, key) == namespace \o <<"/">> \o key

(* The backward transform without the separator's one character. *)
namespaceUntransformKeyShort(namespace, key) == sliceFrom(key, Len(namespace))

namespaceUntransformKey(namespace, key) == sliceFrom(key, Len(namespace) + 1)

(* transformKeyWithFileExtension: key => `${key}.${fileExtension}` and back. *)
extensionTransformKey(fileExtension, key) == key \o <<".">> \o fileExtension

extensionUntransformKey(fileExtension, key) == slice(key, 0, 0 - (Len(fileExtension) + 1))

(* A wrapping store: [kind, arg], arg being its namespace or extension. *)
transformKey(w, key) ==
    IF w.kind = "namespace" THEN namespaceTransformKey(w.arg, key)
    ELSE extensionTransformKey(w.arg, key)

untransformKey(w, key) ==
    IF w.kind = "namespace" THEN namespaceUntransformKey(w.arg, key)
    ELSE extensionUntransformKey(w.arg, key)

TransformList(w, inner) ==
    IF IsSuccess(inner)
    THEN succeed([i \in DOMAIN inner.success |-> untransformKey(w, inner.success[i])])
    ELSE fail(inner.failure)

(***************************************************************************)
(* Wrapping stores in use: two namespaces sharing one memory store.        *)
(***************************************************************************)
Users == [kind |-> "namespace", arg |-> <<"u", "s", "e", "r", "s">>]

Admins == [kind |-> "namespace", arg |-> <<"a", "d", "m", "i", "n", "s">>]

Wrappers == {Users, Admins}

WrapKeys == {<<"u", "1">>, <<"a", "1">>}

WrapValues == {<<"x">>, <<"y">>}

InitWrap ==
    /\ backends = {"memory"}
    /\ internalMap = EmptyMap
    /\ fs = [root |-> "dir", files |-> EmptyMap]
    /\ last = NoCall
    /\ prev = NoCall
    /\ written = [w \in Wrappers |-> {}]
    /\ probe = NoProbe
    /\ calls = NoCalls
    /\ chapters = NoChapters
    /\ route = NoRoute
    /\ assembled = NoStore

WrapCall(op, w, key, value, result) ==
    [op |-> op, store |-> w, key |-> key, value |-> value, result |-> result]

WrapList(w) ==
    \E order \in Orderings(Map2Entries(internalMap)) :
        LET inner == MemoryList(internalMap, order)
        IN  /\ internalMap' = inner.map
            /\ last' = WrapCall("list", w, <<>>, <<>>, TransformList(w, inner.result))
            /\ UNCHANGED <<backends, fs, prev, written, probe, calls,
                           chapters, route, assembled>>

WrapRead(w, key) ==
    LET inner == MemoryRead(internalMap, transformKey(w, key))
    IN  /\ internalMap' = inner.map
        /\ last' = WrapCall("read", w, key, <<>>, inner.result)
        /\ UNCHANGED <<backends, fs, prev, written, probe, calls, chapters,
                       route, assembled>>

WrapWrite(w, key, value) ==
    LET inner == MemoryWrite(internalMap, transformKey(w, key), value)
    IN  /\ internalMap' = inner.map
        /\ last' = WrapCall("write", w, key, value, inner.result)
        /\ written' = IF IsSuccess(inner.result)
                      THEN [written EXCEPT ![w] = @ \cup {key}] ELSE written
        /\ UNCHANGED <<backends, fs, prev, probe, calls, chapters, route,
                       assembled>>

WrapDestroy(w, key) ==
    LET inner == MemoryDestroy(internalMap, transformKey(w, key))
    IN  /\ internalMap' = inner.map
        /\ last' = WrapCall("destroy", w, key, <<>>, inner.result)
        /\ written' = IF IsSuccess(inner.result)
                      THEN [written EXCEPT ![w] = @ \ {key}] ELSE written
        /\ UNCHANGED <<backends, fs, prev, probe, calls, chapters, route,
                       assembled>>

NextWrap ==
    \/ \E w \in Wrappers : WrapList(w)
    \/ \E w \in Wrappers, key \in WrapKeys : WrapRead(w, key)
    \/ \E w \in Wrappers, key \in WrapKeys, value \in WrapValues : WrapWrite(w, key, value)
    \/ \E w \in Wrappers, key \in WrapKeys : WrapDestroy(w, key)

SpecWrap == InitWrap /\ [][NextWrap]_vars

(* C6: list() on a wrapping store returns exactly the keys currently       *)
(* written through that store, in their original form, also when the      *)
(* inner store is shared with another namespace.                           *)
C6_ListReturnsOwnKeys ==
    (last.op = "list" /\ IsSuccess(last.result))
    => /\ Range(last.result.success) = written[last.store]
       /\ Len(last.result.success) = Cardinality(written[last.store])

(***************************************************************************)
(* Two namespaces of which one continues the other, sharing one memory     *)
(* store: transformKeyWithNamespace('a', store) and                        *)
(* transformKeyWithNamespace('a/b', store).                                *)
(***************************************************************************)
Outer == [kind |-> "namespace", arg |-> <<"a">>]

Nested == [kind |-> "namespace", arg |-> <<"a", "/", "b">>]

NestedWrappers == {Outer, Nested}

NestedKeys == {<<"x">>, <<"b", "/", "x">>}

InitNested ==
    /\ backends = {"memory"}
    /\ internalMap = EmptyMap
    /\ fs = [root |-> "dir", files |-> EmptyMap]
    /\ last = NoCall
    /\ prev = NoCall
    /\ written = [w \in NestedWrappers |-> {}]
    /\ probe = NoProbe
    /\ calls = NoCalls
    /\ chapters = NoChapters
    /\ route = NoRoute
    /\ assembled = NoStore

NextNested ==
    \/ \E w \in NestedWrappers : WrapList(w)
    \/ \E w \in NestedWrappers, key \in NestedKeys : WrapRead(w, key)
    \/ \E w \in NestedWrappers, key \in NestedKeys, value \in WrapValues : WrapWrite(w, key, value)
    \/ \E w \in NestedWrappers, key \in NestedKeys : WrapDestroy(w, key)

SpecNested == InitNested /\ [][NextNested]_vars

(* C17: two namespace stores with distinct namespaces over one inner store *)
(* never address the same inner key, so a write or destroy through one     *)
(* leaves what read returns through the other, for every key, as it was.   *)
C17_NamespacesDisjoint ==
    [][last'.op \in {"write", "destroy"} =>
         \A other \in NestedWrappers \ {last'.store}, key \in NestedKeys :
            /\ transformKey(last'.store, last'.key) # transformKey(other, key)
            /\ MemoryRead(internalMap', transformKey(other, key)).result
                 = MemoryRead(internalMap, transformKey(other, key)).result]_vars

(***************************************************************************)
(* The key transforms on their own: a namespace, a file extension and a    *)
(* key are drawn, and the key is taken forward and back through each       *)
(* combinator and through both nestings of the two.                        *)
(***************************************************************************)
KeyChars == {"a", "/", "."}

StringsUpTo(n) == UNION {[1..m -> KeyChars] : m \in 0..n}

ProbeKeys == StringsUpTo(MaxKeyLen)

ProbeNamespaces == {<<>>, <<"a">>, <<"a", "/">>}

ProbeExtensions == {<<>>, <<"a">>, <<".", "a">>}

InitKey ==
    /\ backends = {}
    /\ internalMap = EmptyMap
    /\ fs = [root |-> "dir", files |-> EmptyMap]
    /\ last = NoCall
    /\ prev = NoCall
    /\ written = NoneWritten
    /\ \E ns \in ProbeNamespaces, ext \in ProbeExtensions, key \in ProbeKeys :
           probe = [stage |-> "input", namespace |-> ns, fileExtension |-> ext, key |-> key]
    /\ calls = NoCalls
    /\ chapters = NoChapters
    /\ route = NoRoute
    /\ assembled = NoStore

(* namespace(extension(store)): the namespace store hands its key to the   *)
(* extension store; extension(namespace(store)) the other way round.       *)
ApplyTransforms ==
    /\ probe.stage = "input"
    /\ LET ns == probe.namespace
           ext == probe.fileExtension
           key == probe.key
           nsInner == namespaceTransformKey(ns, key)
           extInner == extensionTransformKey(ext, key)
           nsExtInner == extensionTransformKey(ext, namespaceTransformKey(ns, key))
           extNsInner == namespaceTransformKey(ns, extensionTransformKey(ext, key))
       IN  probe' = [stage |-> "done", namespace |-> ns, fileExtension |-> ext, key |-> key,
                     nsInner |-> nsInner,
                     nsBack |-> namespaceUntransformKey(ns, nsInner),
                     extInner |-> extInner,
                     extBack |-> extensionUntransformKey(ext, extInner),
                     nsExtInner |-> nsExtInner,
                     nsExtBack |-> namespaceUntransformKey(ns, extensionUntransformKey(ext, nsExtInner)),
                     extNsInner |-> extNsInner,
                     extNsBack |-> extensionUntransformKey(ext, namespaceUntransformKey(ns, extNsInner))]
    /\ UNCHANGED <<backends, internalMap, fs, last, prev, written, calls,
                   chapters, route, assembled>>

NextKey == ApplyTransforms

SpecKey == InitKey /\ [][NextKey]_vars

(* C7: for the namespace and the file-extension combinator the backward    *)
(* transform undoes the forward one on every key, also through both        *)
(* nestings of the two, and both nestings give the same inner key.         *)
C7_BackwardUndoesForward ==
    probe.stage = "done"
    => /\ probe.nsBack = probe.key
       /\ probe.extBack = probe.key
       /\ probe.nsExtBack = probe.key
       /\ probe.extNsBack = probe.key
       /\ probe.nsExtInner = probe.extNsInner

(* The empty key, and a key that itself starts with the prefix. *)
C7_Witness ==
    /\ probe.stage = "done"
    /\ probe.namespace = <<"a">> /\ probe.fileExtension = <<"a">>
    /\ probe.key = <<"a", "/", ".">> \/ probe.key = <<>>
    /\ probe.nsExtBack = probe.key
    /\ probe.nsExtInner = <<"a", "/">> \o probe.key \o <<".", "a">>

(***************************************************************************)
(* JSON.  Texts are strings over JsonChars; a value is a number, a string, *)
(* an array or an object.  An object holds its properties in the order     *)
(* JavaScript enumerates them: array-index keys ascending, then the other  *)
(* keys in the order they were first set.  Numbers are non-negative        *)
(* integers of at most nine digits, strings hold no quote, backslash or    *)
(* control character: what the texts written here can denote.              *)
(***************************************************************************)
Quote == "\""

Newline == "\n"

Digits == <<"0", "1", "2", "3", "4", "5", "6", "7", "8", "9">>

JNumber(n) == [t |-> "number", v |-> n]

JString(str) == [t |-> "string", v |-> str]

JArray(items) == [t |-> "array", v |-> items]

JObject(members) == [t |-> "object", v |-> members]

JUndefined == [t |-> "undefined", v |-> <<>>]

IsDigit(c) == c \in Range(Digits)

DigitValue(c) == (CHOOSE i \in DOMAIN Digits : Digits[i] = c) - 1

RECURSIVE NumberOf(_)
NumberOf(ds) == IF ds = <<>> THEN 0 ELSE NumberOf(Front(ds)) * 10 + DigitValue(Last(ds))

RECURSIVE NumberString(_)
NumberString(n) ==
    IF n < 10 THEN <<Digits[n + 1]>>
    ELSE NumberString(n \div 10) \o <<Digits[(n % 10) + 1]>>

(* a < b for two canonical numerals, digit by digit. *)
NumeralLess(a, b) ==
    \/ Len(a) < Len(b)
    \/ /\ Len(a) = Len(b)
       /\ \E i \in DOMAIN a :
              /\ DigitValue(a[i]) < DigitValue(b[i])
              /\ \A j \in 1..(i - 1) : a[j] = b[j]

(* The largest array index, 2^32 - 2. *)
MaxArrayIndex == <<"4", "2", "9", "4", "9", "6", "7", "2", "9", "4">>

(* An array index: a canonical numeral of 0 .. 2^32 - 2. *)
IsArrayIndex(key) ==
    /\ key # <<>>
    /\ \A i \in DOMAIN key : IsDigit(key[i])
    /\ Len(key) = 1 \/ key[1] # "0"
    /\ ~NumeralLess(MaxArrayIndex, key)

HasProperty(members, key) == \E i \in DOMAIN members : members[i][1] = key

GetProperty(members, key) == members[CHOOSE i \in DOMAIN members : members[i][1] = key][2]

(* Where a new property goes in the enumeration order. *)
InsertAt(members, key) ==
    IF IsArrayIndex(key)
    THEN 1 + Cardinality({i \in DOMAIN members :
                            IsArrayIndex(members[i][1]) /\ NumeralLess(members[i][1], key)})
    ELSE Len(members) + 1

SetProperty(members, key, value) ==
    IF HasProperty(members, key)
    THEN [i \in DOMAIN members |-> IF members[i][1] = key THEN <<key, value>> ELSE members[i]]
    ELSE LET at == InsertAt(members, key)
         IN  SubSeq(members, 1, at - 1) \o << <<key, value>> >> \o SubSeq(members, at, Len(members))

(* JSON.parse: [ok |-> TRUE, value] or, for a SyntaxError, [ok |-> FALSE]. *)
IsWhitespace(c) == c = " " \/ c = Newline

SyntaxError == [ok |-> FALSE]

Parsed(value, next) == [ok |-> TRUE, value |-> value, next |-> next]

RECURSIVE skipWhitespace(_, _)
skipWhitespace(s, i) ==
    IF i <= Len(s) /\ IsWhitespace(s[i]) THEN skipWhitespace(s, i + 1) ELSE i

RECURSIVE digitsEnd(_, _)
digitsEnd(s, i) == IF i <= Len(s) /\ IsDigit(s[i]) THEN digitsEnd(s, i + 1) ELSE i

parseNumber(s, i) ==
    IF s[i] = "0" THEN Parsed(JNumber(0), i + 1)
    ELSE LET j == digitsEnd(s, i)
         IN  Parsed(JNumber(NumberOf(SubSeq(s, i, j - 1))), j)

parseString(s, i) ==
    IF \E j \in (i + 1)..Len(s) : s[j] = Quote
    THEN LET j == CHOOSE n \in (i + 1)..Len(s) :
                      s[n] = Quote /\ \A m \in (i + 1)..(n - 1) : s[m] # Quote
             str == SubSeq(s, i + 1, j - 1)
         IN  IF Newline \in Range(str) THEN SyntaxError ELSE Parsed(JString(str), j + 1)
    ELSE SyntaxError

RECURSIVE parseValue(_, _)
RECURSIVE parseElements(_, _, _)
RECURSIVE parseMembers(_, _, _)

parseValue(s, i) ==
    IF i > Len(s) THEN SyntaxError
    ELSE IF s[i] = "["
         THEN LET j == skipWhitespace(s, i + 1)
              IN  IF j <= Len(s) /\ s[j] = "]" THEN Parsed(JArray(<<>>), j + 1)
                  ELSE parseElements(s, j, <<>>)
    ELSE IF s[i] = "{"
         THEN LET j == skipWhitespace(s, i + 1)
              IN  IF j <= Len(s) /\ s[j] = "}" THEN Parsed(JObject(<<>>), j + 1)
                  ELSE parseMembers(s, j, <<>>)
    ELSE IF s[i] = Quote THEN parseString(s, i)
    ELSE IF IsDigit(s[i]) THEN parseNumber(s, i)
    ELSE SyntaxError

parseElements(s, i, items) ==
    LET element == parseValue(s, i)
    IN  IF ~element.ok THEN SyntaxError
        ELSE LET j == skipWhitespace(s, element.next)
             IN  IF j > Len(s) THEN SyntaxError
                 ELSE IF s[j] = ","
                      THEN parseElements(s, skipWhitespace(s, j + 1), Append(items, element.value))
                 ELSE IF s[j] = "]" THEN Parsed(JArray(Append(items, element.value)), j + 1)
                 ELSE SyntaxError

parseMembers(s, i, members) ==
    IF i > Len(s) \/ s[i] # Quote THEN SyntaxError
    ELSE LET name == parseString(s, i)
         IN  IF ~name.ok THEN SyntaxError
             ELSE LET colon == skipWhitespace(s, name.next)
                  IN  IF colon > Len(s) \/ s[colon] # ":" THEN SyntaxError
                      ELSE LET member == parseValue(s, skipWhitespace(s, colon + 1))
                           IN  IF ~member.ok THEN SyntaxError
                               ELSE LET j == skipWhitespace(s, member.next)
                                        set == SetProperty(members, name.value.v, member.value)
                                    IN  IF j > Len(s) THEN SyntaxError
                                        ELSE IF s[j] = ","
                                             THEN parseMembers(s, skipWhitespace(s, j + 1), set)
                                        ELSE IF s[j] = "}" THEN Parsed(JObject(set), j + 1)
                                        ELSE SyntaxError

JSONParse(text) ==
    LET parsed == parseValue(text, skipWhitespace(text, 1))
    IN  IF parsed.ok /\ skipWhitespace(text, parsed.next) = Len(text) + 1
        THEN [ok |-> TRUE, value |-> parsed.value]
        ELSE SyntaxError

(* JSON.stringify(value, null, 3): <<>> stands for its undefined result. *)
Indent == <<" ", " ", " ">>

RECURSIVE Indentation(_)
Indentation(level) == IF level = 0 THEN <<>> ELSE Indent \o Indentation(level - 1)

RECURSIVE stringifyValue(_, _)
RECURSIVE stringifyItems(_, _, _)

stringifyValue(value, level) ==
    IF value.t = "number" THEN NumberString(value.v)
    ELSE IF value.t = "string" THEN <<Quote>> \o value.v \o <<Quote>>
    ELSE IF value.v = <<>> THEN (IF value.t = "array" THEN <<"[", "]">> ELSE <<"{", "}">>)
    ELSE (IF value.t = "array" THEN <<"[">> ELSE <<"{">>)
         \o stringifyItems(value, 1, level + 1)
         \o <<Newline>> \o Indentation(level)
         \o (IF value.t = "array" THEN <<"]">> ELSE <<"}">>)

stringifyItems(value, i, level) ==
    IF i > Len(value.v) THEN <<>>
    ELSE (IF i > 1 THEN <<",">> ELSE <<>>)
         \o <<Newline>> \o Indentation(level)
         \o (IF value.t = "array" THEN stringifyValue(value.v[i], level)
             ELSE <<Quote>> \o value.v[i][1] \o <<Quote, ":", " ">>
                  \o stringifyValue(value.v[i][2], level))
         \o stringifyItems(value, i + 1, level)

JSONStringify(value) == IF value.t = "undefined" THEN <<>> ELSE stringifyValue(value, 0)

(***************************************************************************)
(* chain (@lukekaalim/result): then applies its function to a success,     *)
(* catch to a failure, and each passes anything else on: chainThen and     *)
(* chainCatch say whether the step's function is applied.  An exception    *)
(* thrown inside a step is not caught: the call rejects with it.           *)
(***************************************************************************)
Thrown(error) == [type |-> "thrown", error |-> error]

chainThen(result) == result.type = "success"

chainCatch(result) == result.type = "failure"

(***************************************************************************)
(* The models handed to createJSONModeledStorage: the key model takes the  *)
(* non-empty strings of the letter a, the value model the objects with a   *)
(* numeric id, which it casts to { id }.                                   *)
(***************************************************************************)
CastFailure(message) == [type |-> "cast-failure", message |-> message]

keyModelFrom(raw) ==
    IF raw # <<>> /\ Range(raw) \subseteq {"a"} THEN succeed(raw)
    ELSE fail(CastFailure([expected |-> "key", got |-> raw]))

IdName == <<"i", "d">>

valueModelFrom(value) ==
    IF /\ value.t = "object"
       /\ HasProperty(value.v, IdName)
       /\ GetProperty(value.v, IdName).t = "number"
    THEN succeed(JObject(<< <<IdName, GetProperty(value.v, IdName)>> >>))
    ELSE fail(CastFailure([expected |-> "value", got |-> value]))

(***************************************************************************)
(* createJSONModeledStorage(mapStore, valueModel, keyModel) over the       *)
(* directory store.  Each operation also yields what the inner store       *)
(* returned.                                                               *)
(***************************************************************************)
stringFromKey(key) == key

stringFromValue(value) ==
    LET text == JSONStringify(value)
    IN  IF text = <<>> THEN <<>> ELSE text

RECURSIVE castKeys(_, _)
castKeys(stringKeys, keys) ==
    IF stringKeys = <<>> THEN succeed(keys)
    ELSE LET keyModelResult == keyModelFrom(Head(stringKeys))
         IN  IF keyModelResult.type = "failure"
             THEN fail(InternalFailure([message |-> keyModelResult.failure.message]))
             ELSE castKeys(Tail(stringKeys), Append(keys, keyModelResult.success))

(* A list that leaves out the keys the key model rejects. *)
castValidKeys(stringKeys) ==
    succeed(SelectSeq(stringKeys, LAMBDA k : keyModelFrom(k).type = "success"))

castAllKeys(stringKeys) == castKeys(stringKeys, <<>>)

ModeledList(f, order) ==
    LET inner == DirectoryList(f, order)
    IN  [fs |-> inner.fs, inner |-> inner.result,
         result |-> IF chainThen(inner.result) THEN castAllKeys(inner.result.success)
                    ELSE inner.result]

parseContent(content) ==
    LET parsed == JSONParse(content)
    IN  IF parsed.ok THEN succeed(parsed.value) ELSE Thrown("SyntaxError")

(* A catch step that hands every failure on as it came. *)
passFailure(failure) == fail(failure)

foldFailure(failure) ==
    IF failure.type = "cast-failure"
    THEN fail(InternalFailure([message |-> failure.message]))
    ELSE IF failure.type \in {"internal-failure", "not-found"} THEN fail(failure)
    ELSE failure

(* The chain of read on what the inner store's read returned. *)
readChain(inner) ==
    LET parsed == IF chainThen(inner) THEN parseContent(inner.success) ELSE inner
        cast == IF chainThen(parsed) THEN valueModelFrom(parsed.success) ELSE parsed
    IN  [consulted |-> chainThen(parsed),
         result |-> IF chainCatch(cast) THEN foldFailure(cast.failure) ELSE cast]

ModeledRead(f, key) ==
    LET inner == DirectoryRead(f, stringFromKey(key))
    IN  [fs |-> inner.fs, inner |-> inner.result,
         consulted |-> readChain(inner.result).consulted,
         result |-> readChain(inner.result).result]

ModeledWrite(f, key, value) ==
    LET inner == DirectoryWrite(f, stringFromKey(key), stringFromValue(value))
    IN  [fs |-> inner.fs, inner |-> inner.result, result |-> inner.result]

ModeledDestroy(f, key, dirErr) ==
    LET inner == DirectoryDestroy(f, stringFromKey(key), dirErr)
    IN  [fs |-> inner.fs, inner |-> inner.result, result |-> inner.result]

(***************************************************************************)
(* The JSON-modeled store in use: calls on it, and raw writes made on the  *)
(* inner store beside it.                                                  *)
(***************************************************************************)
ModelKeys == PlainKeys \cup {<<>>}

RawKey == <<"a">>

BadKeys == {<<"!">>, <<"?">>}

IdObject(n) == JObject(<< <<IdName, JNumber(n)>> >>)

ModelValues == {IdObject(1), JUndefined}

RawTexts ==
    {<<>>, <<"{">>, <<"1">>, <<"{", Quote, "i", "d", Quote, ":", "1", "}">>}

InitModeled ==
    /\ backends = {"directory"}
    /\ internalMap = EmptyMap
    /\ \E root \in {"absent", "dir", "symlink"} : fs = [root |-> mkdir(root), files |-> EmptyMap]
    /\ last = NoCall
    /\ prev = NoCall
    /\ written = NoneWritten
    /\ probe = NoProbe
    /\ calls = NoCalls
    /\ chapters = NoChapters
    /\ route = NoRoute
    /\ assembled = NoStore

ModeledCall(op, key, value, out, consulted) ==
    [op |-> op, key |-> key, value |-> value, result |-> out.result, inner |-> out.inner,
     consulted |-> consulted]

ListModeled ==
    \E order \in Orderings(readdirNames(fs, StorePath)) :
        LET out == ModeledList(fs, order)
        IN  /\ fs' = out.fs
            /\ last' = ModeledCall("list", <<>>, <<>>, out, FALSE)
            /\ UNCHANGED <<backends, internalMap, prev, written, probe,
                           calls, chapters, route, assembled>>

ReadModeled(key) ==
    \E out \in {ModeledRead(fs, key)} :
        /\ fs' = out.fs
        /\ last' = ModeledCall("read", key, <<>>, out, out.consulted)
        /\ UNCHANGED <<backends, internalMap, prev, written, probe, calls,
                       chapters, route, assembled>>

WriteModeled(key, value) ==
    LET out == ModeledWrite(fs, key, value)
    IN  /\ fs' = out.fs
        /\ last' = ModeledCall("write", key, value, out, FALSE)
        /\ UNCHANGED <<backends, internalMap, prev, written, probe, calls,
                       chapters, route, assembled>>

DestroyModeled(key) ==
    \E dirErr \in UnlinkDirErrors :
        LET out == ModeledDestroy(fs, key, dirErr)
        IN  /\ fs' = out.fs
            /\ last' = ModeledCall("destroy", key, <<>>, out, FALSE)
            /\ UNCHANGED <<backends, internalMap, prev, written, probe,
                           calls, chapters, route, assembled>>

(* A write made on the inner store itself: any text under one key of the   *)
(* key model, a JSON text under a key the key model rejects.               *)
WriteInner(rawKey, text) ==
    LET out == DirectoryWrite(fs, rawKey, text)
    IN  /\ fs' = out.fs
        /\ last' = [op |-> "inner-write", key |-> rawKey, value |-> text,
                    result |-> out.result, inner |-> out.result, consulted |-> FALSE]
        /\ UNCHANGED <<backends, internalMap, prev, written, probe, calls,
                       chapters, route, assembled>>

NextModeled ==
    \/ ListModeled
    \/ \E key \in ModelKeys : ReadModeled(key)
    \/ \E key \in ModelKeys, value \in ModelValues : WriteModeled(key, value)
    \/ \E key \in ModelKeys : DestroyModeled(key)
    \/ \E text \in RawTexts : WriteInner(RawKey, text)
    \/ \E rawKey \in BadKeys : WriteInner(rawKey, <<"1">>)

SpecModeled == InitModeled /\ [][NextModeled]_vars

(* What the inner store holds is a JSON text the value model accepts. *)
Readable(content) ==
    /\ JSONParse(content).ok
    /\ IsSuccess(valueModelFrom(JSONParse(content).value))

(* C8: read on a JSON-modeled store never throws or rejects, and when the  *)
(* inner store holds for the key a string that is not valid JSON (the      *)
(* empty string too) or a JSON value the value model rejects, read returns *)
(* a failure of type internal-failure.                                     *)
C8_ReadNeverThrows ==
    last.op = "read"
    => /\ last.result.type \in {"success", "failure"}
       /\ (IsSuccess(last.inner) /\ ~Readable(last.inner.success))
          => IsFailureOf(last.result, "internal-failure")

(* C9: no cast-failure leaves the JSON-modeled layer and no inner failure  *)
(* is swallowed: a failure read returns is a not-found or an               *)
(* internal-failure; a failure of the inner read is returned unchanged,    *)
(* the value model not consulted; and a failing inner list, write or       *)
(* destroy gives a failing outer result.                                   *)
C9_FailuresFolded ==
    /\ last.op = "read"
       => /\ last.result.type # "cast-failure"
          /\ last.result.type = "failure"
             => last.result.failure.type \in {"not-found", "internal-failure"}
          /\ last.inner.type = "failure"
             => (last.result = last.inner /\ ~last.consulted)
    /\ (last.op \in {"list", "write", "destroy"} /\ last.inner.type = "failure")
       => last.result.type = "failure"

(* A read whose value the value model rejected, and came back folded. *)
C9_Witness ==
    /\ last.op = "read"
    /\ IsSuccess(last.inner)
    /\ last.consulted
    /\ IsFailureOf(last.result, "internal-failure")
    /\ last.result.failure.error.message.expected = "value"

(* C10: list on a JSON-modeled store is all or nothing: when a key of the  *)
(* inner list fails the key model, list returns an internal-failure with   *)
(* the message of the first such key and no keys; when every inner key     *)
(* passes, list succeeds with one key per inner key, in the inner order.   *)
C10_ListAllOrNothing ==
    (last.op = "list" /\ IsSuccess(last.inner))
    => LET stringKeys == last.inner.success
           failing == {i \in DOMAIN stringKeys : keyModelFrom(stringKeys[i]).type = "failure"}
       IN  IF failing = {}
           THEN last.result =
                    succeed([i \in DOMAIN stringKeys |-> keyModelFrom(stringKeys[i]).success])
           ELSE LET first == CHOOSE i \in failing : \A j \in failing : i <= j
                IN  last.result = fail(InternalFailure(
                        [message |-> keyModelFrom(stringKeys[first]).failure.message]))

(* A list over keys the key model accepts followed by one it rejects. *)
C10_Witness ==
    /\ last.op = "list"
    /\ IsSuccess(last.inner)
    /\ Len(last.inner.success) > 2
    /\ IsSuccess(keyModelFrom(last.inner.success[1]))
    /\ ~IsSuccess(keyModelFrom(last.inner.success[2]))
    /\ IsFailureOf(last.result, "internal-failure")

(* The text of { id: 1 } with three spaces of indentation. *)
IdOneText ==
    <<"{", Newline, " ", " ", " ", Quote, "i", "d", Quote, ":", " ", "1", Newline, "}">>

(* C13: on a JSON-modeled store a write(k, v) of a value the value model   *)
(* accepts succeeds and hands the inner store the text of v indented by    *)
(* three spaces, and a read(k) right after it succeeds with v.             *)
C13_ModeledRoundTrip ==
    [][/\ (last'.op = "write" /\ IsSuccess(valueModelFrom(last'.value)))
          => /\ IsSuccess(last'.result)
             /\ Kind(fs', KeyFile(last'.key)) = "file"
             /\ last'.value = IdObject(1) => fs'.files[KeyFile(last'.key)] = IdOneText
       /\ (/\ last.op = "write" /\ IsSuccess(valueModelFrom(last.value))
           /\ last'.op = "read" /\ last'.key = last.key)
          => last'.result = succeed(last.value)]_vars

(***************************************************************************)
(* createModelMapStore(config, valueModel, keyModel, namespace).  The      *)
(* configured directory is "/d" and the namespace "s", so that the         *)
(* local-json directory store is the one on StorePath.  A store is the     *)
(* list of its wrapping layers, outermost first, over a backend.  The      *)
(* bucket of createS3Storage maps object keys to texts.                    *)
(***************************************************************************)
JsonExtension == <<".", "j", "s", "o", "n">>

Namespace == Last(StorePath)

StorageTypes == {"memory", "local-json", "s3-json"}

ConfigTypes == StorageTypes \cup {"xml-files"}

StoreOperations == {"list", "read", "write", "destroy"}

(* What the store's path names when the factory is called. *)
FactoryRoots == {"absent", "dir", "file"}

(* What stat(path) fails with, if it fails for a reason of its own. *)
StatErrors == {"none", "EACCES"}

(* How the promise of createS3Storage(creds, bucketName) settles. *)
S3Outcomes == {"resolved", "rejected"}

(* A call of the factory: the configuration's type and what the call finds. *)
FactoryCalls == [type : ConfigTypes, root : FactoryRoots, statError : StatErrors,
                 s3 : S3Outcomes]

(* The filesystem the call finds. *)
FoundFs(root) ==
    [root |-> IF root = "dir" THEN "dir" ELSE "gone",
     files |-> IF root = "file" THEN Put(EmptyMap, StorePath, <<>>) ELSE EmptyMap]

(* directoryExists(path): stat's isDirectory(), false for ENOENT and        *)
(* EEXIST, any other error of stat thrown again.                           *)
directoryExists(f, statError) ==
    LET k == IF statError # "none" THEN statError ELSE Kind(f, StorePath)
    IN  IF k \in {"dir", "file"} THEN [ok |-> TRUE, value |-> k = "dir"]
        ELSE IF IsAbsent(k) THEN [ok |-> TRUE, value |-> FALSE]
        ELSE Err(k)

(* The construction of createDirectoryMapStore(path): the path is made a   *)
(* directory unless it is one; mkdir rejects with EEXIST on a regular file. *)
createDirectoryMapStore(f, statError) ==
    LET exists == directoryExists(f, statError)
    IN  IF ~exists.ok THEN Err(exists.code)
        ELSE IF exists.value THEN [ok |-> TRUE, fs |-> f]
        ELSE IF Kind(f, StorePath) = "file" THEN Err("EEXIST")
        ELSE [ok |-> TRUE, fs |-> [f EXCEPT !.root = mkdir("absent")]]

(* createS3Storage of ./storage/s3Storage: a promise of a string store. *)
createS3Storage(s3) == IF s3 = "resolved" THEN [ok |-> TRUE] ELSE Err("S3")

Assembled(call, layers, backend) ==
    [stage |-> "store", type |-> call.type, call |-> call, layers |-> layers,
     backend |-> backend, operations |-> StoreOperations, bucket |-> EmptyMap]

(* The factory's promise rejected: no store. *)
Rejected(call, error) ==
    [stage |-> "thrown", type |-> call.type, call |-> call, layers |-> <<>>,
     backend |-> "none", operations |-> {}, bucket |-> EmptyMap, error |-> error]

(* A factory that takes an unknown type for the memory type. *)
createModelMapStoreLenient(call) ==
    LET f == FoundFs(call.root)
        s3 == createS3Storage(call.s3)
        directory == createDirectoryMapStore(f, call.statError)
    IN  IF call.type = "s3-json"
        THEN [fs |-> f,
              store |-> IF s3.ok
                        THEN Assembled(call, <<"json", "namespace", "extension">>, "s3")
                        ELSE Rejected(call, [code |-> s3.code])]
        ELSE IF call.type = "local-json"
        THEN (IF directory.ok
              THEN [fs |-> directory.fs,
                    store |-> Assembled(call, <<"json", "extension">>, "directory")]
              ELSE [fs |-> f, store |-> Rejected(call, [code |-> directory.code])])
        ELSE [fs |-> f, store |-> Assembled(call, <<>>, "memory")]

(* createModelMapStore: the switch on config.storage.type, each branch     *)
(* awaiting its backend's construction before the layers are put on it.    *)
createModelMapStore(call) ==
    LET f == FoundFs(call.root)
        s3 == createS3Storage(call.s3)
        directory == createDirectoryMapStore(f, call.statError)
    IN  IF call.type = "s3-json"
        THEN [fs |-> f,
              store |-> IF s3.ok
                        THEN Assembled(call, <<"json", "namespace", "extension">>, "s3")
                        ELSE Rejected(call, [code |-> s3.code])]
        ELSE IF call.type = "local-json"
        THEN (IF directory.ok
              THEN [fs |-> directory.fs,
                    store |-> Assembled(call, <<"json", "extension">>, "directory")]
              ELSE [fs |-> f, store |-> Rejected(call, [code |-> directory.code])])
        ELSE IF call.type = "memory"
        THEN [fs |-> f, store |-> Assembled(call, <<>>, "memory")]
        ELSE [fs |-> f,
              store |-> Rejected(call, [message |-> <<"Unknown storage type: ", call.type>>])]

(* The key a layered store hands to its backend. *)
RECURSIVE backendKey(_, _)
backendKey(layers, key) ==
    IF layers = <<>> THEN key
    ELSE backendKey(Tail(layers),
                    IF Head(layers) = "json" THEN stringFromKey(key)
                    ELSE IF Head(layers) = "namespace"
                         THEN namespaceTransformKey(Namespace, key)
                    ELSE extensionTransformKey(JsonExtension, key))

backendValue(layers, value) ==
    IF layers # <<>> /\ Head(layers) = "json" THEN stringFromValue(value) ELSE value

S3Write(bucket, key, value) == [bucket |-> Put(bucket, key, value), result |-> succeed(Undefined)]

S3Read(bucket, key) ==
    IF key \in DOMAIN bucket THEN succeed(bucket[key]) ELSE fail(NotFound)

FactoryValues == {IdObject(0), IdObject(1)}

InitFactory ==
    /\ \E call \in FactoryCalls :
        /\ assembled = createModelMapStore(call).store
        /\ fs = createModelMapStore(call).fs
        /\ backends = {assembled.backend} \ {"none", "s3"}
    /\ internalMap = EmptyMap
    /\ last = NoCall
    /\ prev = NoCall
    /\ written = NoneWritten
    /\ probe = NoProbe
    /\ calls = NoCalls
    /\ chapters = NoChapters
    /\ route = NoRoute

FactoryWrite(key, value) ==
    /\ assembled.stage = "store"
    /\ LET k == backendKey(assembled.layers, key)
           v == backendValue(assembled.layers, value)
           m == MemoryWrite(internalMap, k, v)
           d == DirectoryWrite(fs, k, v)
           s == S3Write(assembled.bucket, k, v)
       IN  /\ internalMap' = IF assembled.backend = "memory" THEN m.map ELSE internalMap
           /\ fs' = IF assembled.backend = "directory" THEN d.fs ELSE fs
           /\ assembled' = IF assembled.backend = "s3"
                           THEN [assembled EXCEPT !.bucket = s.bucket] ELSE assembled
           /\ last' = [op |-> "write", key |-> key, value |-> value,
                       result |-> IF assembled.backend = "memory" THEN m.result
                                  ELSE IF assembled.backend = "directory" THEN d.result
                                  ELSE s.result]
    /\ UNCHANGED <<backends, prev, written, probe, calls, chapters, route>>

FactoryRead(key) ==
    /\ assembled.stage = "store"
    /\ LET k == backendKey(assembled.layers, key)
           inner == IF assembled.backend = "memory" THEN MemoryRead(internalMap, k).result
                    ELSE IF assembled.backend = "directory" THEN DirectoryRead(fs, k).result
                    ELSE S3Read(assembled.bucket, k)
       IN  last' = [op |-> "read", key |-> key, value |-> <<>>,
                    result |-> IF assembled.layers # <<>> /\ Head(assembled.layers) = "json"
                               THEN readChain(inner).result ELSE inner]
    /\ UNCHANGED <<backends, internalMap, fs, prev, written, probe, calls, chapters, route,
                   assembled>>

NextFactory ==
    \/ \E key \in PlainKeys, value \in FactoryValues : FactoryWrite(key, value)
    \/ \E key \in PlainKeys : FactoryRead(key)

SpecFactory == InitFactory /\ [][NextFactory]_vars

(* C14: a write of k through an assembled store reaches the backend under  *)
(* k with ".json" appended once: the file /d/s/k.json for local-json, the  *)
(* object key s/k.json for s3-json.                                        *)
C14_JsonSuffixOnce ==
    (assembled.stage = "store" /\ last.op = "write")
    => LET name == last.key \o <<".", "j", "s", "o", "n">>
       IN  /\ assembled.type = "local-json"
              => Kind(fs, << <<"d">>, <<"s">>, name >>) = "file"
           /\ assembled.type = "s3-json"
              => (<<"s", "/">> \o name) \in DOMAIN assembled.bucket

(* Whether the backend of a known type can be constructed in what the     *)
(* call finds.                                                             *)
BackendConstructs(call) ==
    \/ call.type = "memory"
    \/ call.type = "local-json" /\ call.statError = "none" /\ call.root \in {"absent", "dir"}
    \/ call.type = "s3-json" /\ call.s3 = "resolved"

MaxChapters == 2

UserIds == {"u1", "u2"}

ChapterNames == {"n1", "n2"}

globalChapterAddPermissionId == 0

(* An async function's return value: a promise of its result. *)
Promise(value) == [kind |-> "promise", value |-> value]

Boolean(b) == [kind |-> "boolean", value |-> b]

(* JavaScript's ToBoolean: false stays false, every object is truthy. *)
Truthy(v) == IF v.kind = "boolean" THEN v.value ELSE TRUE

(* userHasPermission(roleService, userId, permissionId) of ../role. *)
userHasPermission(roles, userId, permissionId) ==
    Promise(Boolean(\E role \in roles :
                        userId \in role.users /\ permissionId \in role.permissions))

(* await of a promise. *)
Await(v) == IF v.kind = "promise" THEN v.value ELSE v

buildNewChapter(id, name, readPermission, masterPermission) ==
    [id |-> id, name |-> name,
     readPermission |-> readPermission, masterPermission |-> masterPermission]

Idle == [pc |-> "idle"]

ChapterThrown(name) == [type |-> "thrown", error |-> name]

ChapterReturned(chapter) == [type |-> "returned", chapter |-> chapter]

InitChapters ==
    /\ backends = {}
    /\ internalMap = EmptyMap
    /\ fs = [root |-> "dir", files |-> EmptyMap]
    /\ last = NoCall
    /\ prev = NoCall
    /\ written = NoneWritten
    /\ probe = NoProbe
    /\ calls = NoCalls
    /\ \E holders \in SUBSET UserIds :
           chapters = [stage |-> "service",
                       permissions |-> {globalChapterAddPermissionId},
                       roles |-> {[users |-> holders,
                                   permissions |-> {globalChapterAddPermissionId}]},
                       stored |-> {},
                       call |-> Idle,
                       get |-> Idle,
                       outcome |-> [op |-> "none"]]
    /\ route = NoRoute
    /\ assembled = NoStore

ChapterStep(next) ==
    /\ chapters' = next
    /\ UNCHANGED <<backends, internalMap, fs, last, prev, written, probe, calls,
                   route, assembled>>

(* addNewChapter up to its first await: the permission test on the value   *)
(* userHasPermission returns, then the call of addNewPermission.           *)
AddNewChapter(userId, chapterName) ==
    /\ chapters.stage = "service"
    /\ chapters.call = Idle
    /\ Cardinality(chapters.stored) < MaxChapters
    /\ LET has == userHasPermission(chapters.roles, userId, globalChapterAddPermissionId)
       IN  IF ~Truthy(has)
           THEN ChapterStep([chapters EXCEPT
                    !.outcome = [op |-> "addNewChapter", userId |-> userId,
                                 result |-> ChapterThrown("InsufficientPermissionsError")]])
           ELSE ChapterStep([chapters EXCEPT
                    !.call = [pc |-> "readPermission", userId |-> userId,
                              chapterName |-> chapterName]])

NewPermission(permissions) == Cardinality(permissions)

(* permissionService.addNewPermission() resolves: readPermission. *)
ResolveReadPermission ==
    /\ chapters.stage = "service"
    /\ chapters.call.pc = "readPermission"
    /\ LET id == NewPermission(chapters.permissions)
       IN  ChapterStep([chapters EXCEPT
               !.permissions = @ \cup {id},
               !.call = [pc |-> "masterPermission", userId |-> @.userId,
                         chapterName |-> @.chapterName, readPermission |-> id]])

(* permissionService.addNewPermission() resolves: masterPermission. *)
ResolveMasterPermission ==
    /\ chapters.stage = "service"
    /\ chapters.call.pc = "masterPermission"
    /\ LET id == NewPermission(chapters.permissions)
       IN  ChapterStep([chapters EXCEPT
               !.permissions = @ \cup {id},
               !.call = [pc |-> "role", userId |-> @.userId,
                         chapterName |-> @.chapterName,
                         readPermission |-> @.readPermission, masterPermission |-> id]])

(* addRoleWithPermissionsAndUsers resolves; the chapter is built and       *)
(* setStoredChapter called.                                                *)
ResolveRole ==
    /\ chapters.stage = "service"
    /\ chapters.call.pc = "role"
    /\ LET c == chapters.call
       IN  ChapterStep([chapters EXCEPT
               !.roles = @ \cup {[users |-> {c.userId},
                                  permissions |-> {c.readPermission, c.masterPermission}]},
               !.call = [pc |-> "store", userId |-> c.userId,
                         newChapter |-> buildNewChapter(Cardinality(chapters.stored) + 1,
                                                        c.chapterName, c.readPermission,
                                                        c.masterPermission)]])

(* setStoredChapter resolves and addNewChapter returns the chapter. *)
ResolveStore ==
    /\ chapters.stage = "service"
    /\ chapters.call.pc = "store"
    /\ LET c == chapters.call
       IN  ChapterStep([chapters EXCEPT
               !.stored = @ \cup {c.newChapter},
               !.call = Idle,
               !.outcome = [op |-> "addNewChapter", userId |-> c.userId,
                            result |-> ChapterReturned(c.newChapter)]])

(* What the storage service's read of a getChapter settles with: what is  *)
(* stored under the id (KeyNotFoundError when nothing is), or another      *)
(* error.                                                                  *)
ReadOutcomes == {"stored", "error"}

(* getChapter up to its first await: getStoredChapter(chapterId) is called. *)
GetChapter(userId, chapterId) ==
    /\ chapters.stage = "service"
    /\ chapters.get = Idle
    /\ ChapterStep([chapters EXCEPT
           !.get = [pc |-> "read", userId |-> userId, chapterId |-> chapterId]])

(* What enhanceGet's catch throws for a rejected read.  KeyNotFoundError   *)
(* is imported from ../storage, which exports no such name, so the test    *)
(* `err instanceof KeyNotFoundError` itself throws a TypeError, whatever   *)
(* the read's error was.                                                   *)
enhanceGetError == "TypeError"

(* The read settles: rejected, enhanceGet's catch throws; with the chapter *)
(* in hand userHasPermission is called and awaited.                        *)
ResolveStoredChapter(outcome) ==
    /\ chapters.stage = "service"
    /\ chapters.get.pc = "read"
    /\ LET g == chapters.get
           found == {ch \in chapters.stored : ch.id = g.chapterId}
           thrown(name) ==
               [chapters EXCEPT
                   !.get = Idle,
                   !.outcome = [op |-> "getChapter", userId |-> g.userId,
                                result |-> ChapterThrown(name)]]
       IN  IF outcome = "error" \/ found = {}
           THEN ChapterStep(thrown(enhanceGetError))
           ELSE ChapterStep([chapters EXCEPT
                    !.get = [pc |-> "permission", userId |-> g.userId,
                             chapterId |-> g.chapterId,
                             chapter |-> CHOOSE ch \in found : TRUE]])

(* userHasPermission resolves: the awaited value is tested and the chapter *)
(* returned.                                                               *)
ResolveReadPermissionTest ==
    /\ chapters.stage = "service"
    /\ chapters.get.pc = "permission"
    /\ LET g == chapters.get
           result ==
               IF ~Truthy(Await(userHasPermission(chapters.roles, g.userId,
                                                  g.chapter.readPermission)))
               THEN ChapterThrown("InsufficientPermissionsError")
               ELSE ChapterReturned(g.chapter)
       IN  ChapterStep([chapters EXCEPT
               !.get = Idle,
               !.outcome = [op |-> "getChapter", userId |-> g.userId, result |-> result]])

NextChapters ==
    \/ \E userId \in UserIds, chapterName \in ChapterNames : AddNewChapter(userId, chapterName)
    \/ ResolveReadPermission
    \/ ResolveMasterPermission
    \/ ResolveRole
    \/ ResolveStore
    \/ \E userId \in UserIds, chapterId \in 1..MaxChapters : GetChapter(userId, chapterId)
    \/ \E outcome \in ReadOutcomes : ResolveStoredChapter(outcome)
    \/ ResolveReadPermissionTest

SpecChapters == InitChapters /\ [][NextChapters]_vars

(* C19: addNewChapter gets past its permission test only for a user for    *)
(* whom userHasPermission resolves to true for the global chapter-add      *)
(* permission: a call by any other user throws and creates nothing; and a  *)
(* stored chapter's two permissions and its role exist.                    *)
C19_AddRequiresPermission ==
    chapters.stage = "service"
    => /\ chapters.call.pc # "idle"
          => Truthy(Await(userHasPermission(chapters.roles, chapters.call.userId,
                                            globalChapterAddPermissionId)))
       /\ \A ch \in chapters.stored :
             /\ {ch.readPermission, ch.masterPermission} \subseteq chapters.permissions
             /\ \E role \in chapters.roles :
                    role.permissions = {ch.readPermission, ch.masterPermission}


(***************************************************************************)
(* createRESTRoute(logger)(path, getResponse, method).handler(inc, out).   *)
(* route holds the request, the handler's position (suspended at the       *)
(* await of getResponse or of the stream's 'end'), the ServerResponse out, *)
(* the body stream and the events logged.                                  *)
(***************************************************************************)
MaxChunks == 2

Urls == {<<"/", "a">>, <<"/", "a", "?", "x">>}

Methods == {"GET", "POST"}

StatusCodes == {200, 404}

HeaderLists == {<<>>, << <<"h", "v">> >>}

Content == <<"o", "k">>

Bodies ==
    {[type |-> "string", content |-> Content], [type |-> "buffer", content |-> Content]}
    \cup {[type |-> "stream", chunks |-> n] : n \in 0..MaxChunks}

Responses == [statusCode : StatusCodes, headers : HeaderLists, body : Bodies]

(* What getResponse's promise is rejected with: an Error, or nothing. *)
Rejections == {"Error", "undefined"}

(* internalServerError() of ./response. *)
internalServerError ==
    [statusCode |-> 500, headers |-> <<>>, body |-> [type |-> "string", content |-> <<>>]]

errorRoute(message) == [type |-> "errorRoute", message |-> message]

respondRoute(url, method, statusCode) ==
    [type |-> "respondRoute", url |-> url, method |-> method, statusCode |-> statusCode]

NewOut == [statusCode |-> 200, headers |-> <<>>, written |-> <<>>, endCalls |-> 0,
           finished |-> FALSE]

(* out.end(): finishes the response; on a finished response it does nothing. *)
outEnd(out) == [out EXCEPT !.endCalls = @ + 1, !.finished = TRUE]

outWrite(out, chunk) ==
    IF out.finished THEN out ELSE [out EXCEPT !.written = Append(@, chunk)]

Logged(type) == Cardinality({i \in DOMAIN route.log : route.log[i].type = type})

InitRoute ==
    /\ backends = {}
    /\ internalMap = EmptyMap
    /\ fs = [root |-> "dir", files |-> EmptyMap]
    /\ last = NoCall
    /\ prev = NoCall
    /\ written = NoneWritten
    /\ probe = NoProbe
    /\ calls = NoCalls
    /\ chapters = NoChapters
    /\ route = [stage |-> "created"]
    /\ assembled = NoStore

RouteStep(next) ==
    /\ route' = next
    /\ UNCHANGED <<backends, internalMap, fs, last, prev, written, probe, calls,
                   chapters, assembled>>

(* handler(inc, out) up to its first await: getResponse is called. *)
Handle(url, method) ==
    /\ route.stage = "created"
    /\ RouteStep([stage |-> "handling", inc |-> [url |-> url, method |-> method],
                  pc |-> "getResponse", settled |-> "pending", out |-> NewOut,
                  chunks |-> 0, log |-> <<>>])

(* Lines 66-85 with the response in hand: status and headers, then the     *)
(* body by its type.  A stream is piped and the handler suspends until the *)
(* stream's 'end'.                                                         *)
Respond(r, response, settled, log) ==
    LET out == [r.out EXCEPT !.statusCode = response.statusCode,
                             !.headers = response.headers]
    IN  IF response.body.type \in {"string", "buffer"}
        THEN [r EXCEPT !.settled = settled,
                       !.out = outEnd(outWrite(out, response.body.content)),
                       !.log = Append(log, respondRoute(r.inc.url, r.inc.method,
                                                        response.statusCode)),
                       !.pc = "returned"]
        ELSE [r EXCEPT !.settled = settled,
                       !.out = out,
                       !.log = log,
                       !.chunks = response.body.chunks,
                       !.pc = "streamEnd"]

GetResponseResolves(response) ==
    /\ route.stage = "handling"
    /\ route.pc = "getResponse"
    /\ RouteStep(Respond(route, response, "resolved", route.log))

(* getResponse's promise rejects and the catch callback runs: it reads     *)
(* error.message and error.stack, logs the error and returns               *)
(* internalServerError(), which settles the awaited promise.  Reading a    *)
(* property of undefined throws instead, which rejects the awaited         *)
(* promise.  The handler itself resumes in a later job.                    *)
GetResponseRejects(error) ==
    /\ route.stage = "handling"
    /\ route.pc = "getResponse"
    /\ IF error = "undefined"
       THEN RouteStep([route EXCEPT !.settled = "rejected", !.pc = "catchThrew"])
       ELSE RouteStep([route EXCEPT !.settled = "rejected", !.pc = "caught",
                                    !.log = Append(@, errorRoute(error))])

(* The handler resumes after the await with what the catch callback gave:  *)
(* lines 66-85 with internalServerError()'s response, or, the callback     *)
(* having thrown, the handler's own promise rejects.                       *)
ResumeAfterCatch ==
    /\ route.stage = "handling"
    /\ route.pc \in {"caught", "catchThrew"}
    /\ IF route.pc = "catchThrew"
       THEN RouteStep([route EXCEPT !.pc = "rejected"])
       ELSE RouteStep(Respond(route, internalServerError, "rejected", route.log))

(* stream.pipe(out): a chunk of the stream is written to out. *)
StreamData ==
    /\ route.stage = "handling"
    /\ route.pc = "streamEnd"
    /\ route.chunks > 0
    /\ RouteStep([route EXCEPT !.chunks = @ - 1, !.out = outWrite(@, Content)])

(* The stream emits 'end': pipe ends out, and the awaited promise is       *)
(* resolved.                                                               *)
StreamEnd ==
    /\ route.stage = "handling"
    /\ route.pc = "streamEnd"
    /\ route.chunks = 0
    /\ RouteStep([route EXCEPT !.out = outEnd(@), !.pc = "ended"])

(* The stream emits 'error' (or is destroyed): pipe leaves out open and no *)
(* 'end' follows.                                                          *)
StreamError ==
    /\ route.stage = "handling"
    /\ route.pc = "streamEnd"
    /\ RouteStep([route EXCEPT !.pc = "stalled"])

(* The handler resumes after the await: out.end() and the respondRoute log. *)
ResumeAfterEnd ==
    /\ route.stage = "handling"
    /\ route.pc = "ended"
    /\ RouteStep([route EXCEPT
           !.out = outEnd(@),
           !.log = Append(@, respondRoute(route.inc.url, route.inc.method,
                                          route.out.statusCode)),
           !.pc = "returned"])

NextRoute ==
    \/ \E url \in Urls, method \in Methods : Handle(url, method)
    \/ \E response \in Responses : GetResponseResolves(response)
    \/ \E error \in Rejections : GetResponseRejects(error)
    \/ ResumeAfterCatch
    \/ StreamData
    \/ StreamEnd
    \/ StreamError
    \/ ResumeAfterEnd

SpecRoute == InitRoute /\ [][NextRoute]_vars

(* The event loop runs whatever is ready: a request arrives, getResponse   *)
(* settles, the stream yields data, ends or fails, a resolved await        *)
(* resumes.                                                                *)
SpecRouteFair == SpecRoute /\ WF_vars(NextRoute)

(* C20: every request handled ends with the response finished and one      *)
(* respondRoute event logged, the event never before the response is       *)
(* finished, whatever the body's type; and when getResponse rejects the    *)
(* handler does not reject: errorRoute is logged and the response sent is  *)
(* the internal-server-error one.                                          *)
C20_EndsThenLogs ==
    /\ [](route.stage = "handling"
          => /\ Logged("respondRoute") <= 1
             /\ Logged("respondRoute") = 1 => route.out.finished
             /\ route.pc # "rejected"
             /\ (route.settled = "rejected" /\ route.pc = "returned")
                => (Logged("errorRoute") = 1 /\ route.out.statusCode = 500))
    /\ (route.stage = "handling")
           ~> (/\ route.stage = "handling"
               /\ route.out.finished
               /\ Logged("respondRoute") = 1)

=============================================================================
